---- MODULE Spec2Model ----
(***************************************************************************)
(* A model of the realtime messaging subsystem of src/app.py:              *)
(* WebsocketConnectionManager (the connection registry), the handler       *)
(* websocket_endpoint (the message router), auto_save_chat_for_both_users  *)
(* and update_chat_last_message (the roster synchronizer), and the HTTP    *)
(* operations save_chat, get_saved_chats and get_messages.                 *)
(*                                                                         *)
(* Every channel is served by one coroutine.  An action of the model is    *)
(* the code a coroutine runs between two suspension points (awaits that    *)
(* reach the event loop).  A write transaction of SQLite (first write to   *)
(* COMMIT) holds the database write lock and is invisible to the other     *)
(* connections until COMMIT, so it is one action.                          *)
(***************************************************************************)
EXTENDS Integers, Sequences, FiniteSets, Bags, TLC

\* ---------------------------------------------------------------- bounds
MaxChans == 2        \* channels opened in one run
MaxPayloads == 2     \* inbound payloads received in one run
MaxClock == 1        \* readings of the server clock range over 0..MaxClock
MaxHttp == 1         \* HTTP requests served in one run
MaxSenderChans == 1  \* channels opened in one run of SpecSender
MaxRows == 3         \* rows of messages in the tables of SpecHistory
MaxExtra == 2        \* messages beyond the cap in the tables of SpecCap
MaxRoster == 2       \* rows of saved_chats in the tables of SpecList, SpecUpsert

\* ------------------------------------------------------------ identities
Users == {"A", "B"}          \* rows of table users (the profile store)
Ghost == "G"                 \* an identity string with no row in users
Absent == "<absent>"         \* a key that the JSON object does not hold
Null == "<null>"             \* JSON null / Python None
NoUser == "<none>"           \* get_current_user returning None
Dummy == "<dummy>"           \* a deleted entry of a dict's entry array
Bodies == {"x", "y"}

\* The row of users for a username (nickname = username at registration,
\* line 646); found = FALSE models fetchone() returning None.
UserInfo(u) ==
    IF u \in Users THEN [found |-> TRUE, nickname |-> u]
    ELSE [found |-> FALSE, nickname |-> ""]

NoInfo == [found |-> FALSE, nickname |-> ""]

\* ---------------------------------------------------------------- tokens
\* A token as the client presents it: the claims it carries and whether
\* its signature verifies under SECRET_KEY.
\* an expiry time no clock reading of a run reaches
ExpFar == MaxClock + 1
NoToken == [sub |-> NoUser, exp |-> 0, sig |-> FALSE, present |-> FALSE]
Tokens ==
    {NoToken}
    \cup [sub : Users, exp : {1, ExpFar}, sig : {TRUE}, present : {TRUE}]
    \cup [sub : {"A"}, exp : {ExpFar}, sig : {FALSE}, present : {TRUE}]

\* a mutant of decode_jwt: the expiry claim is not verified
decode_jwt_noexp(token, now) ==
    IF token.sig THEN token.sub ELSE NoUser

\* decode_jwt followed by payload.get("sub"): jwt.decode verifies the
\* signature and the exp claim (expired when exp <= now); any PyJWTError
\* gives {} and so no "sub".
decode_jwt(token, now) ==
    IF token.sig /\ token.exp > now THEN token.sub ELSE NoUser

\* Times of the token specification are minutes.  The lifetime create_jwt
\* gives when expires_delta is None (line 125), and max_age of the cookie
\* that login_form sets (line 247: 3600 * 24 * 31 seconds).
DefaultTtl == 15
CookieMaxAge == 44640
NoDelta == -1

\* create_jwt, lines 116-135: exp is now + expires_delta, or now + 15
\* minutes; the token is signed with SECRET_KEY.
create_jwt(sub, expires_delta, now) ==
    [sub |-> sub,
     exp |-> IF expires_delta # NoDelta THEN now + expires_delta
             ELSE now + DefaultTtl,
     sig |-> TRUE, present |-> TRUE]

\* the cookie access_token as the browser keeps it, lines 244-250
Cookie(token, now) == [key |-> "access_token", value |-> token,
                       expires |-> now + CookieMaxAge]

\* get_current_user / get_current_user_ws: a missing token gives None.
get_current_user(token, now) ==
    IF ~token.present THEN NoUser ELSE decode_jwt(token, now)

\* ------------------------------------------------------------- variables
VARIABLES
    clock,               \* the server clock, as the last reading
    active_connections,  \* manager.active_connections: the dict's entry array
    messages,            \* table messages, in rowid order
    saved_chats,         \* table saved_chats, in rowid order
    pc,                  \* per channel: where its handler is
    username,            \* per channel: the handler's local username
    wsOpen,              \* per channel: the websocket can still carry frames
    message_data,        \* per channel: the handler's local message_data
    sender_info,         \* per channel: the handler's local sender_info
    receiver_info,       \* per channel: the handler's local receiver_info
    bc,                  \* per channel: the dict iterator of a running broadcast
    inbox,               \* per channel: the bag of frames sent to its client
    cur,                 \* per channel: number of the payload being processed
    ended,               \* per channel: what ended the handler, "" if nothing
    tokenOf,             \* per channel: the token the channel was opened with
    npayloads,           \* payloads received so far
    nopened,             \* channels opened so far
    sc,                  \* the save_chat request in flight
    resp,                \* the last HTTP response
    nhttp,               \* HTTP requests served so far
    log                  \* per payload: what the router did with it

vars == <<clock, active_connections, messages, saved_chats, pc, username,
          wsOpen, message_data, sender_info, receiver_info, bc, inbox, cur,
          ended, tokenOf, npayloads, nopened, sc, resp, nhttp, log>>

Chans == 1..MaxChans

\* ------------------------------------------------- the dict of the registry
\* manager.active_connections is a Python dict: an entry array in insertion
\* order, where pop() leaves a dummy entry behind and a new key is appended.
\* (The array is compacted only when a dict of this size has had more than
\* five insertions, which no run of the model reaches.)
DummyEntry == [user |-> Dummy, ws |-> 0]

RegHas(ac, u) == \E i \in DOMAIN ac : ac[i].user = u

RegIndex(ac, u) == CHOOSE i \in DOMAIN ac : ac[i].user = u

\* active_connections.get(username): 0 stands for None
RegGet(ac, u) == IF RegHas(ac, u) THEN ac[RegIndex(ac, u)].ws ELSE 0

\* len(active_connections), the dict's ma_used
RegLen(ac) == Cardinality({i \in DOMAIN ac : ac[i].user # Dummy})

\* active_connections[username] = websocket
RegSet(ac, u, c) ==
    IF RegHas(ac, u) THEN [ac EXCEPT ![RegIndex(ac, u)].ws = c]
    ELSE Append(ac, [user |-> u, ws |-> c])

\* WebsocketConnectionManager.disconnect: active_connections.pop(username, None)
disconnect(ac, u) ==
    IF RegHas(ac, u) THEN [ac EXCEPT ![RegIndex(ac, u)] = DummyEntry] ELSE ac

\* One run of the loop of broadcast, from the iterator's position to the
\* next await of send_text or to the end of the loop.  next() first
\* compares the dict's size with the size the iterator was created at,
\* then skips the dummy entries, and before it yields an entry it checks
\* that it has not yet yielded as many as the dict held at its creation
\* (left counts those still to yield).
RECURSIVE BroadcastAdvance(_, _, _, _, _)
BroadcastAdvance(ac, pos, used, left, exclude) ==
    IF RegLen(ac) # used
    THEN [kind |-> "RuntimeError: dictionary changed size during iteration",
          user |-> NoUser, ws |-> 0, pos |-> pos, left |-> left]
    ELSE IF pos > Len(ac)
    THEN [kind |-> "StopIteration", user |-> NoUser, ws |-> 0, pos |-> pos,
          left |-> left]
    ELSE IF ac[pos].user = Dummy
    THEN BroadcastAdvance(ac, pos + 1, used, left, exclude)
    ELSE IF left = 0
    THEN [kind |-> "RuntimeError: dictionary keys changed during iteration",
          user |-> NoUser, ws |-> 0, pos |-> pos, left |-> left]
    ELSE IF ac[pos].user \in exclude
    THEN BroadcastAdvance(ac, pos + 1, used, left - 1, exclude)
    ELSE [kind |-> "send", user |-> ac[pos].user, ws |-> ac[pos].ws,
          pos |-> pos + 1, left |-> left - 1]

\* the identities that the registry holds, other than those of exclude
Registered(ac, exclude) ==
    {ac[i].user : i \in {j \in DOMAIN ac : ac[j].user \notin {Dummy} \cup exclude}}

\* No broadcast is running.  Next to the iterator's fields the model keeps
\* of a running broadcast the identities that were registered when it
\* began (snapshot) and those it has sent to (sent).
NoIter == [pos |-> 0, used |-> 0, left |-> 0, snapshot |-> {}, sent |-> {}]

\* ------------------------------------------------------------ the tables
HistoryCap == 50
NullTime == -1               \* a NULL last_message_time

\* r1 sorts in front of r2 under the ORDER BY clause order
Before(order, r1, r2) ==
    CASE order = "timestamp ASC" -> r1.timestamp < r2.timestamp
      [] order = "timestamp DESC" -> r1.timestamp > r2.timestamp
      [] order = "last_message_time DESC NULLS LAST, created_at DESC" ->
            \/ r1.last_message_time # NullTime /\ r2.last_message_time = NullTime
            \/ /\ r1.last_message_time # NullTime /\ r2.last_message_time # NullTime
               /\ r1.last_message_time > r2.last_message_time
            \/ /\ r1.last_message_time = r2.last_message_time
               /\ r1.created_at > r2.created_at
      [] order = "created_at DESC" -> r1.created_at > r2.created_at

\* a sort that returns the rows that compare equal last scanned first
OrderBy_ties_reversed(seq, order) ==
    LET InFront(j, i) ==
            \/ Before(order, seq[j], seq[i])
            \/ ~Before(order, seq[i], seq[j]) /\ j > i
        Place(i) == Cardinality({j \in DOMAIN seq : InFront(j, i)}) + 1
    IN  [k \in DOMAIN seq |-> seq[CHOOSE i \in DOMAIN seq : Place(i) = k]]

\* ORDER BY: the rows of seq sorted under the clause order; rows that
\* compare equal keep the order they were scanned in (SQLite scans table
\* messages by rowid and its sorter keeps the order of arrival among equal
\* keys).  Row i goes to the place that counts the rows sorted in front of
\* it.
OrderBy(seq, order) ==
    LET InFront(j, i) ==
            \/ Before(order, seq[j], seq[i])
            \/ ~Before(order, seq[i], seq[j]) /\ j < i
        Place(i) == Cardinality({j \in DOMAIN seq : InFront(j, i)}) + 1
    IN  [k \in DOMAIN seq |-> seq[CHOOSE i \in DOMAIN seq : Place(i) = k]]

\* LIMIT n
Limit(seq, n) == IF Len(seq) <= n THEN seq ELSE SubSeq(seq, 1, n)

\* a mutant of get_messages: ORDER BY m.timestamp DESC
get_messages_desc(user, other_username, msgs) ==
    LET Pair(m) == /\ \/ m.sender_username = user /\ m.receiver_username = other_username
                      \/ m.sender_username = other_username /\ m.receiver_username = user
                   /\ UserInfo(m.sender_username).found
                   /\ UserInfo(m.receiver_username).found
    IN  Limit(OrderBy(SelectSeq(msgs, Pair), "timestamp DESC"), HistoryCap)

\* get_messages: the SELECT of lines 493-503.  The two inner JOINs on users
\* keep only the messages whose sender and receiver both have a row there.
get_messages(user, other_username, msgs) ==
    LET Pair(m) == /\ \/ m.sender_username = user /\ m.receiver_username = other_username
                      \/ m.sender_username = other_username /\ m.receiver_username = user
                   /\ UserInfo(m.sender_username).found
                   /\ UserInfo(m.receiver_username).found
    IN  Limit(OrderBy(SelectSeq(msgs, Pair), "timestamp ASC"), HistoryCap)

\* get_saved_chats: the SELECT of lines 401-407
get_saved_chats_by_created(user, chats) ==
    LET Mine(r) == r.user_username = user
    IN  OrderBy(SelectSeq(chats, Mine), "created_at DESC")

get_saved_chats(user, chats) ==
    LET Mine(r) == r.user_username = user
    IN  OrderBy(SelectSeq(chats, Mine),
                "last_message_time DESC NULLS LAST, created_at DESC")

\* SELECT id FROM saved_chats WHERE user_username = ? AND chat_username = ?
ChatExists(chats, user, chat) ==
    \E i \in DOMAIN chats :
        chats[i].user_username = user /\ chats[i].chat_username = chat

\* INSERT INTO saved_chats (user_username, chat_username, chat_nickname, chat_pfp):
\* last_message and last_message_time are NULL, created_at is CURRENT_TIMESTAMP
InsertChat(chats, user, chat, nickname, now) ==
    Append(chats, [id |-> Len(chats) + 1, user_username |-> user,
                   chat_username |-> chat, chat_nickname |-> nickname,
                   last_message_time |-> NullTime, last_message |-> Null,
                   created_at |-> now])

\* the UPDATE without its column last_message
SetLastMessage_time_only(chats, user, chat, message, timestamp) ==
    [i \in DOMAIN chats |->
        IF chats[i].user_username = user /\ chats[i].chat_username = chat
        THEN [chats[i] EXCEPT !.last_message_time = timestamp]
        ELSE chats[i]]

\* UPDATE saved_chats SET last_message = ?, last_message_time = ?
\* WHERE user_username = ? AND chat_username = ?
SetLastMessage(chats, user, chat, message, timestamp) ==
    [i \in DOMAIN chats |->
        IF chats[i].user_username = user /\ chats[i].chat_username = chat
        THEN [chats[i] EXCEPT !.last_message = message,
                              !.last_message_time = timestamp]
        ELSE chats[i]]

\* the row written anew, as INSERT OR REPLACE would
SetNickname_replace(chats, user, chat, nickname) ==
    [i \in DOMAIN chats |->
        IF chats[i].user_username = user /\ chats[i].chat_username = chat
        THEN [chats[i] EXCEPT !.chat_nickname = nickname,
                              !.last_message = Null,
                              !.last_message_time = NullTime]
        ELSE chats[i]]

\* UPDATE saved_chats SET chat_nickname = ?, chat_pfp = ? WHERE ...
SetNickname(chats, user, chat, nickname) ==
    [i \in DOMAIN chats |->
        IF chats[i].user_username = user /\ chats[i].chat_username = chat
        THEN [chats[i] EXCEPT !.chat_nickname = nickname]
        ELSE chats[i]]

\* ---------------------------------------------------------------- inputs
\* What a client can put in a text frame.  json = FALSE is a frame that
\* json.loads rejects; "from" is a sender field the client adds on its own.
NoData == [json |-> TRUE, to |-> Absent, message |-> Absent, from |-> Absent]

Payloads ==
    [json : {TRUE}, to : Users, message : Bodies, from : {Absent}]
    \cup {[NoData EXCEPT !.to = Ghost, !.message = "x"],
          [NoData EXCEPT !.json = FALSE],
          [NoData EXCEPT !.message = "x"],
          [NoData EXCEPT !.to = "A"],
          [NoData EXCEPT !.to = "", !.message = "x"],
          [NoData EXCEPT !.to = "A", !.message = ""],
          [NoData EXCEPT !.to = "A", !.message = Null]}

Nicknames == {"nick"}

NoSc == [active |-> FALSE, token |-> NoToken, user |-> NoUser, chat |-> "",
         nickname |-> "", existing |-> FALSE]

NoResp == [op |-> "", token |-> NoToken, status |-> 0, user |-> NoUser,
           peer |-> "", body |-> <<>>]

\* the frames of the router (lines 562-586) and the presence notices
\* (lines 39 and 590); pid numbers the payload a frame answers
Frame(type, peer, message, pid) ==
    [type |-> type, peer |-> peer, message |-> message, pid |-> pid]

\* ------------------------------------------------------------------ Init
\* the module-level state of app.py after import (manager, line 65) with
\* no channel opened and no request served; the two tables are set apart
InitLocal ==
    /\ active_connections = <<>>
    /\ pc = [c \in Chans |-> "init"]
    /\ username = [c \in Chans |-> NoUser]
    /\ wsOpen = [c \in Chans |-> FALSE]
    /\ message_data = [c \in Chans |-> NoData]
    /\ sender_info = [c \in Chans |-> NoInfo]
    /\ receiver_info = [c \in Chans |-> NoInfo]
    /\ bc = [c \in Chans |-> NoIter]
    /\ inbox = [c \in Chans |-> EmptyBag]
    /\ cur = [c \in Chans |-> 0]
    /\ ended = [c \in Chans |-> ""]
    /\ tokenOf = [c \in Chans |-> NoToken]
    /\ npayloads = 0
    /\ nopened = 0
    /\ sc = NoSc
    /\ resp = NoResp
    /\ nhttp = 0
    /\ log = <<>>

InitRest ==
    /\ saved_chats = <<>>
    /\ InitLocal

\* ... and with the tables as startup creates them (lines 68-105): empty
Init ==
    /\ clock = 0
    /\ messages = <<>>
    /\ InitRest

dbVars == <<messages, saved_chats>>
httpVars == <<sc, resp, nhttp>>
localVars == <<message_data, sender_info, receiver_info>>

\* the server clock moves on
Tick ==
    /\ clock < MaxClock
    /\ clock' = clock + 1
    /\ UNCHANGED <<active_connections, messages, saved_chats, pc, username,
                   wsOpen, message_data, sender_info, receiver_info, bc, inbox,
                   cur, ended, tokenOf, npayloads, nopened, sc, resp, nhttp, log>>

\* ------------------------------------------------------- channel admission
\* websocket_endpoint, lines 522-527 up to the await of websocket.accept()
\* in manager.connect (line 38).
WsOpen(c, token) ==
    /\ c = nopened + 1
    /\ c \in Chans
    /\ pc[c] = "init"
    /\ nopened' = c
    /\ tokenOf' = [tokenOf EXCEPT ![c] = token]
    /\ LET user == get_current_user(token, clock)
       IN  IF user = NoUser
           THEN /\ pc' = [pc EXCEPT ![c] = "refused"]
                /\ ended' = [ended EXCEPT ![c] = "close(1008)"]
                /\ UNCHANGED <<username, wsOpen>>
           ELSE /\ pc' = [pc EXCEPT ![c] = "connect"]
                /\ username' = [username EXCEPT ![c] = user]
                /\ wsOpen' = [wsOpen EXCEPT ![c] = TRUE]
                /\ UNCHANGED ended
    /\ UNCHANGED <<clock, active_connections, dbVars, localVars, bc, inbox,
                   cur, npayloads, httpVars, log>>

\* What send_text raises on a websocket that the server has closed: the
\* ASGI server's own exception (RuntimeError here), or WebSocketDisconnect
\* with code 1006 in the releases of Starlette that convert it.
SendFailures == {"RuntimeError", "WebSocketDisconnect(1006)"}

\* An exception that leaves websocket_endpoint: the only handler of the
\* function catches WebSocketDisconnect (line 588), so the coroutine ends
\* with the registry as it is, and the server closes the websocket.
Raise(c, exception) ==
    /\ pc' = [pc EXCEPT ![c] = "crashed"]
    /\ ended' = [ended EXCEPT ![c] = exception]
    /\ wsOpen' = [wsOpen EXCEPT ![c] = FALSE]
    /\ message_data' = [message_data EXCEPT ![c] = NoData]
    /\ sender_info' = [sender_info EXCEPT ![c] = NoInfo]
    /\ receiver_info' = [receiver_info EXCEPT ![c] = NoInfo]
    /\ bc' = [bc EXCEPT ![c] = NoIter]

\* broadcast (lines 52-62) as run by connect (line 39) and by the handler of
\* WebSocketDisconnect (line 590): one pass of the loop up to the next
\* await of send_text, or to the end of the loop and what follows it
\* (line 40 for connect, the end of the coroutine for the leave notice).
BroadcastStep(c) ==
    /\ pc[c] \in {"connect", "left"}
    /\ LET used == IF bc[c].pos = 0 THEN RegLen(active_connections)
                   ELSE bc[c].used
           left == IF bc[c].pos = 0 THEN RegLen(active_connections)
                   ELSE bc[c].left
           snapshot == IF bc[c].pos = 0
                       THEN Registered(active_connections, {username[c]})
                       ELSE bc[c].snapshot
           pos == IF bc[c].pos = 0 THEN 1 ELSE bc[c].pos
           r == BroadcastAdvance(active_connections, pos, used, left, {username[c]})
           notice == Frame(IF pc[c] = "connect" THEN "online" ELSE "left",
                           username[c], "", 0)
       IN  CASE r.kind \notin {"send", "StopIteration"} ->
                   /\ Raise(c, r.kind)
                   /\ UNCHANGED <<active_connections, inbox>>
             [] r.kind = "send" /\ ~wsOpen[r.ws] ->
                   /\ \E e \in SendFailures : Raise(c, e)
                   /\ UNCHANGED <<active_connections, inbox>>
             [] r.kind = "send" /\ wsOpen[r.ws] ->
                   /\ inbox' = [inbox EXCEPT ![r.ws] = @ (+) SetToBag({notice})]
                   /\ bc' = [bc EXCEPT ![c] = [pos |-> r.pos, used |-> used,
                                                left |-> r.left,
                                                snapshot |-> snapshot,
                                                sent |-> bc[c].sent \cup {r.user}]]
                   /\ UNCHANGED <<active_connections, pc, ended, wsOpen, localVars>>
             [] r.kind = "StopIteration" /\ pc[c] = "connect" ->
                   /\ active_connections' =
                          RegSet(active_connections, username[c], c)
                   /\ pc' = [pc EXCEPT ![c] = "receive"]
                   /\ bc' = [bc EXCEPT ![c] = NoIter]
                   /\ UNCHANGED <<inbox, ended, wsOpen, localVars>>
             [] r.kind = "StopIteration" /\ pc[c] = "left" ->
                   /\ pc' = [pc EXCEPT ![c] = "closed"]
                   /\ bc' = [bc EXCEPT ![c] = NoIter]
                   /\ UNCHANGED <<active_connections, inbox, ended, wsOpen,
                                  localVars>>
    /\ UNCHANGED <<clock, dbVars, username, cur, tokenOf, npayloads, nopened,
                   httpVars, log>>

\* The client closes the channel: receive_text (line 531) raises
\* WebSocketDisconnect, and line 589 runs manager.disconnect(username).
ClientClose(c) ==
    /\ pc[c] = "receive"
    /\ active_connections' = disconnect(active_connections, username[c])
    /\ pc' = [pc EXCEPT ![c] = "left"]
    /\ ended' = [ended EXCEPT ![c] = "WebSocketDisconnect"]
    /\ wsOpen' = [wsOpen EXCEPT ![c] = FALSE]
    /\ UNCHANGED <<clock, dbVars, username, localVars, bc, inbox, cur, tokenOf,
                   npayloads, nopened, httpVars, log>>

\* ------------------------------------------------------------- the router
\* what the model records of one payload: the channel it came in on, the
\* identity bound to the channel, the payload, and how far the router got
LogEntry(c, payload) ==
    [chan |-> c, sender |-> username[c], to |-> payload.to,
     message |-> payload.message, msgid |-> 0, insert_failed |-> FALSE,
     roster |-> FALSE, branch |-> "", done |-> FALSE]

\* back at the top of the loop (line 530): the locals are dead
NextPayload(c) ==
    /\ pc' = [pc EXCEPT ![c] = "receive"]
    /\ cur' = [cur EXCEPT ![c] = 0]
    /\ message_data' = [message_data EXCEPT ![c] = NoData]
    /\ sender_info' = [sender_info EXCEPT ![c] = NoInfo]
    /\ receiver_info' = [receiver_info EXCEPT ![c] = NoInfo]

\* Lines 531-540 up to the INSERT: receive_text, json.loads, and the
\* evaluation of message_data["to"] and message_data["message"].
Receive(c, payload, maxPayloads) ==
    /\ pc[c] = "receive"
    /\ npayloads < maxPayloads
    /\ npayloads' = npayloads + 1
    /\ cur' = [cur EXCEPT ![c] = npayloads + 1]
    /\ log' = Append(log, LogEntry(c, payload))
    /\ IF ~payload.json
       THEN Raise(c, "JSONDecodeError")
       ELSE IF payload.to = Absent \/ payload.message = Absent
       THEN Raise(c, "KeyError")
       ELSE /\ message_data' = [message_data EXCEPT ![c] = payload]
            /\ pc' = [pc EXCEPT ![c] = "insert"]
            /\ UNCHANGED <<ended, wsOpen, sender_info, receiver_info, bc>>
    /\ UNCHANGED <<clock, active_connections, dbVars, username, inbox, tokenOf,
                   nopened, httpVars>>

\* a mutant of the INSERT of line 539: the sender is taken from the payload
MessageRow_from_payload(c, id, now) ==
    [id |-> id,
     sender_username |-> IF message_data[c].from = Absent THEN username[c]
                         ELSE message_data[c].from,
     receiver_username |-> message_data[c].to,
     message |-> message_data[c].message,
     timestamp |-> now]

\* the row that the INSERT of lines 538-541 adds to messages; timestamp is
\* the column's DEFAULT CURRENT_TIMESTAMP
MessageRow(c, id, now) ==
    [id |-> id,
     sender_username |-> username[c],
     receiver_username |-> message_data[c].to,
     message |-> message_data[c].message,
     timestamp |-> now]

\* Lines 538-555: INSERT INTO messages and COMMIT, then the two SELECTs on
\* users.  message is NOT NULL, so a JSON null fails the INSERT.
InsertMessage(c) ==
    /\ pc[c] = "insert"
    /\ IF message_data[c].message = Null
       THEN /\ Raise(c, "IntegrityError")
            /\ log' = [log EXCEPT ![cur[c]].insert_failed = TRUE]
            /\ UNCHANGED messages
       ELSE /\ messages' = Append(messages, MessageRow(c, Len(messages) + 1, clock))
            /\ sender_info' = [sender_info EXCEPT ![c] = UserInfo(username[c])]
            /\ receiver_info' =
                   [receiver_info EXCEPT ![c] = UserInfo(message_data[c].to)]
            /\ pc' = [pc EXCEPT ![c] = "auto_save"]
            /\ log' = [log EXCEPT ![cur[c]].msgid = Len(messages) + 1]
            /\ UNCHANGED <<ended, wsOpen, message_data, bc>>
    /\ UNCHANGED <<clock, active_connections, saved_chats, username, inbox, cur,
                   tokenOf, npayloads, nopened, httpVars>>

\* The INSERT of line 538 or the COMMIT of line 542 fails in the database
\* (sqlite3.OperationalError: the database is locked, the disk is full).
InsertMessageFault(c) ==
    /\ pc[c] = "insert"
    /\ Raise(c, "OperationalError")
    /\ log' = [log EXCEPT ![cur[c]].insert_failed = TRUE]
    /\ UNCHANGED <<clock, active_connections, dbVars, username, inbox, cur,
                   tokenOf, npayloads, nopened, httpVars>>

\* row["nickname"] or username (lines 608 and 622)
NicknameOr(info, user) == IF info.nickname # "" THEN info.nickname ELSE user

\* auto_save_chat_for_both_users, lines 598-602: the SELECT for the
\* sender's row.
AutoSaveSelect(c) ==
    /\ pc[c] = "auto_save"
    /\ pc' = [pc EXCEPT ![c] =
                 IF ChatExists(saved_chats, username[c], message_data[c].to)
                 THEN "auto_save_receiver" ELSE "auto_save_insert"]
    /\ UNCHANGED <<clock, active_connections, dbVars, username, wsOpen,
                   localVars, bc, inbox, cur, ended, tokenOf, npayloads, nopened,
                   httpVars, log>>

\* saved_chats after the transaction of lines 605-624 when the sender's row
\* was not found: INSERT for the sender, SELECT and INSERT for the receiver
AutoSaveRows(chats, sender, receiver, sinfo, rinfo, now) ==
    LET one == InsertChat(chats, sender, receiver, NicknameOr(rinfo, receiver), now)
    IN  IF ChatExists(one, receiver, sender) THEN one
        ELSE InsertChat(one, receiver, sender, NicknameOr(sinfo, sender), now)

\* auto_save_chat_for_both_users, lines 604-624, when the sender's row was
\* not found: one write transaction.  receiver_info["nickname"] raises on
\* None; UNIQUE(user_username, chat_username) fails the INSERT when the row
\* has been committed by another connection since the SELECT.
AutoSaveInsert(c) ==
    /\ pc[c] = "auto_save_insert"
    /\ LET to == message_data[c].to
       IN  IF ~receiver_info[c].found
           THEN Raise(c, "TypeError") /\ UNCHANGED saved_chats
           ELSE IF ChatExists(saved_chats, username[c], to)
           THEN Raise(c, "IntegrityError") /\ UNCHANGED saved_chats
           ELSE IF ~ChatExists(saved_chats, to, username[c]) /\ ~sender_info[c].found
           THEN Raise(c, "TypeError") /\ UNCHANGED saved_chats
           ELSE /\ saved_chats' = AutoSaveRows(saved_chats, username[c], to,
                                               sender_info[c], receiver_info[c], clock)
                /\ pc' = [pc EXCEPT ![c] = "update_last"]
                /\ UNCHANGED <<ended, wsOpen, localVars, bc>>
    /\ UNCHANGED <<clock, active_connections, messages, username, inbox, cur,
                   tokenOf, npayloads, nopened, httpVars, log>>

\* auto_save_chat_for_both_users, lines 612-616, when the sender's row was
\* found: the SELECT for the receiver's row (then COMMIT of nothing).
AutoSaveSelectReceiver(c) ==
    /\ pc[c] = "auto_save_receiver"
    /\ pc' = [pc EXCEPT ![c] =
                 IF ChatExists(saved_chats, message_data[c].to, username[c])
                 THEN "update_last" ELSE "auto_save_receiver_insert"]
    /\ UNCHANGED <<clock, active_connections, dbVars, username, wsOpen,
                   localVars, bc, inbox, cur, ended, tokenOf, npayloads, nopened,
                   httpVars, log>>

\* auto_save_chat_for_both_users, lines 618-624: INSERT for the receiver
\* and COMMIT.
AutoSaveInsertReceiver(c) ==
    /\ pc[c] = "auto_save_receiver_insert"
    /\ LET to == message_data[c].to
       IN  IF ~sender_info[c].found
           THEN Raise(c, "TypeError") /\ UNCHANGED saved_chats
           ELSE IF ChatExists(saved_chats, to, username[c])
           THEN Raise(c, "IntegrityError") /\ UNCHANGED saved_chats
           ELSE /\ saved_chats' = InsertChat(saved_chats, to, username[c],
                                             NicknameOr(sender_info[c], username[c]),
                                             clock)
                /\ pc' = [pc EXCEPT ![c] = "update_last"]
                /\ UNCHANGED <<ended, wsOpen, localVars, bc>>
    /\ UNCHANGED <<clock, active_connections, messages, username, inbox, cur,
                   tokenOf, npayloads, nopened, httpVars, log>>

\* update_chat_last_message, lines 460-479: the clock is read (line 462),
\* the two UPDATEs and COMMIT are one write transaction.
UpdateLast(c) ==
    /\ pc[c] = "update_last"
    /\ LET to == message_data[c].to
           body == message_data[c].message
       IN  saved_chats' =
               SetLastMessage(SetLastMessage(saved_chats, username[c], to, body, clock),
                              to, username[c], body, clock)
    /\ pc' = [pc EXCEPT ![c] = "deliver"]
    /\ log' = [log EXCEPT ![cur[c]].roster = TRUE]
    /\ UNCHANGED <<clock, active_connections, messages, username, wsOpen,
                   localVars, bc, inbox, cur, ended, tokenOf, npayloads, nopened,
                   httpVars>>

\* WebSocketDisconnect raised inside the loop of websocket_endpoint: line
\* 589 runs manager.disconnect(username), line 590 is still to run.
Disconnected(c, exception) ==
    /\ active_connections' = disconnect(active_connections, username[c])
    /\ pc' = [pc EXCEPT ![c] = "left"]
    /\ ended' = [ended EXCEPT ![c] = exception]
    /\ wsOpen' = [wsOpen EXCEPT ![c] = FALSE]
    /\ message_data' = [message_data EXCEPT ![c] = NoData]
    /\ sender_info' = [sender_info EXCEPT ![c] = NoInfo]
    /\ receiver_info' = [receiver_info EXCEPT ![c] = NoInfo]
    /\ bc' = [bc EXCEPT ![c] = NoIter]

\* send_personal_message (lines 46-50) called by handler c: nothing is sent
\* when the username has no entry; send_text on a websocket that the server
\* has closed raises in the caller, which catches WebSocketDisconnect only.  after is where the handler goes next,
\* branch the side of the if of line 561 that it took.
SendPersonal(c, frame, user, after, branch) ==
    LET ws == RegGet(active_connections, user)
        taken == [log EXCEPT ![cur[c]].branch = branch]
        Continue == IF after = "receive"
                    THEN /\ NextPayload(c)
                         /\ log' = [taken EXCEPT ![cur[c]].done = TRUE]
                         /\ UNCHANGED <<ended, wsOpen, bc>>
                    ELSE /\ pc' = [pc EXCEPT ![c] = after]
                         /\ log' = taken
                         /\ UNCHANGED <<ended, wsOpen, localVars, bc, cur>>
    IN  IF ws = 0
        THEN UNCHANGED <<inbox, active_connections>> /\ Continue
        ELSE IF ~wsOpen[ws]
        THEN /\ \/ Raise(c, "RuntimeError") /\ UNCHANGED active_connections
                \/ Disconnected(c, "WebSocketDisconnect(1006)")
             /\ log' = taken
             /\ UNCHANGED <<inbox, cur>>
        ELSE /\ inbox' = [inbox EXCEPT ![ws] = @ (+) SetToBag({frame})]
             /\ UNCHANGED active_connections
             /\ Continue

\* Lines 561-570: the recipient is in the registry, the "message" frame is
\* sent to it.
DeliverMessage(c) ==
    /\ pc[c] = "deliver"
    /\ RegHas(active_connections, message_data[c].to)
    /\ SendPersonal(c, Frame("message", username[c], message_data[c].message, cur[c]),
                    message_data[c].to, "confirm", "online")
    /\ UNCHANGED <<clock, dbVars, username, tokenOf,
                   npayloads, nopened, httpVars>>

\* Lines 573-579: the "sent" frame, to the sender's entry of the registry.
Confirm(c) ==
    /\ pc[c] = "confirm"
    /\ SendPersonal(c, Frame("sent", message_data[c].to, message_data[c].message, cur[c]),
                    username[c], "receive", "online")
    /\ UNCHANGED <<clock, dbVars, username, tokenOf,
                   npayloads, nopened, httpVars>>

\* Lines 580-586: the recipient is not in the registry, the "error" frame
\* ("User ... is not online.") goes to the sender's entry of the registry.
DeliverOffline(c) ==
    /\ pc[c] = "deliver"
    /\ ~RegHas(active_connections, message_data[c].to)
    /\ SendPersonal(c, Frame("error", message_data[c].to, "", cur[c]),
                    username[c], "receive", "offline")
    /\ UNCHANGED <<clock, dbVars, username, tokenOf,
                   npayloads, nopened, httpVars>>

\* ---------------------------------------------------- the HTTP operations
Response(op, token, status, user, peer, body) ==
    [op |-> op, token |-> token, status |-> status, user |-> user,
     peer |-> peer, body |-> body]

chanVars == <<active_connections, pc, username, wsOpen, message_data,
              sender_info, receiver_info, bc, inbox, cur, ended, tokenOf,
              npayloads, nopened, log>>

\* saved_chats after save_chat's lines 430-453 run without interleaving
save_chat(chats, user, chat, nickname, now) ==
    IF ChatExists(chats, user, chat)
    THEN SetNickname(chats, user, chat, nickname)
    ELSE InsertChat(chats, user, chat, nickname, now)

\* save_chat, lines 426-437: the cookie's token, then the SELECT.
SaveChat(token, chat, nickname, maxHttp) ==
    /\ nhttp < maxHttp
    /\ ~sc.active
    /\ nhttp' = nhttp + 1
    /\ LET user == get_current_user(token, clock)
       IN  IF user = NoUser
           THEN /\ resp' = Response("save_chat", token, 401, NoUser, chat, <<>>)
                /\ UNCHANGED sc
           ELSE /\ sc' = [active |-> TRUE, token |-> token, user |-> user,
                          chat |-> chat, nickname |-> nickname,
                          existing |-> ChatExists(saved_chats, user, chat)]
                /\ UNCHANGED resp
    /\ UNCHANGED <<clock, dbVars, chanVars>>

\* save_chat, lines 439-457: UPDATE or INSERT, COMMIT; every exception
\* becomes the answer 500.
SaveChatWrite ==
    /\ sc.active
    /\ sc' = NoSc
    /\ IF sc.existing
       THEN /\ saved_chats' = SetNickname(saved_chats, sc.user, sc.chat, sc.nickname)
            /\ resp' = Response("save_chat", sc.token, 200, sc.user, sc.chat, <<>>)
       ELSE IF ChatExists(saved_chats, sc.user, sc.chat)
       THEN /\ UNCHANGED saved_chats
            /\ resp' = Response("save_chat", sc.token, 500, sc.user, sc.chat, <<>>)
       ELSE /\ saved_chats' = InsertChat(saved_chats, sc.user, sc.chat, sc.nickname, clock)
            /\ resp' = Response("save_chat", sc.token, 200, sc.user, sc.chat, <<>>)
    /\ UNCHANGED <<clock, messages, nhttp, chanVars>>

\* get_saved_chats, lines 391-417
GetSavedChats(token, maxHttp) ==
    /\ nhttp < maxHttp
    /\ nhttp' = nhttp + 1
    /\ LET user == get_current_user(token, clock)
       IN  IF user = NoUser
           THEN resp' = Response("get_saved_chats", token, 401, NoUser, "", <<>>)
           ELSE resp' = Response("get_saved_chats", token, 200, user, "",
                                 get_saved_chats(user, saved_chats))
    /\ UNCHANGED <<clock, dbVars, sc, chanVars>>

\* get_messages, lines 482-517
GetMessages(token, other_username, maxHttp) ==
    /\ nhttp < maxHttp
    /\ nhttp' = nhttp + 1
    /\ LET user == get_current_user(token, clock)
       IN  IF user = NoUser
           THEN resp' = Response("get_messages", token, 401, NoUser,
                                 other_username, <<>>)
           ELSE resp' = Response("get_messages", token, 200, user, other_username,
                                 get_messages(user, other_username, messages))
    /\ UNCHANGED <<clock, dbVars, sc, chanVars>>

\* ------------------------------------------------------ the specifications
\* the tokens that verify at every clock reading of a run
ValidTokens == {t \in Tokens : t.sig /\ t.exp = ExpFar}

\* The channel handlers: admission, the router and the registry.  (The
\* step AutoSaveInsertReceiver is with save_chat below: the router reaches
\* it only from a roster row that save_chat has written.)
Router(tokens, payloads, maxChans, maxPayloads) ==
    \/ \E c \in 1..maxChans, token \in tokens : WsOpen(c, token)
    \/ \E c \in Chans : BroadcastStep(c)
    \/ \E c \in Chans : ClientClose(c)
    \/ \E c \in Chans, payload \in payloads : Receive(c, payload, maxPayloads)
    \/ \E c \in Chans : InsertMessage(c)
    \/ \E c \in Chans : InsertMessageFault(c)
    \/ \E c \in Chans : AutoSaveSelect(c)
    \/ \E c \in Chans : AutoSaveInsert(c)
    \/ \E c \in Chans : AutoSaveSelectReceiver(c)
    \/ \E c \in Chans : UpdateLast(c)
    \/ \E c \in Chans : DeliverMessage(c)
    \/ \E c \in Chans : Confirm(c)
    \/ \E c \in Chans : DeliverOffline(c)

\* the HTTP operations on the two stores: the one that writes, the two
\* that read
HttpWrite(tokens, peers, maxHttp) ==
    \/ \E token \in tokens, chat \in peers, nickname \in Nicknames :
           SaveChat(token, chat, nickname, maxHttp)
    \/ SaveChatWrite

\* save_chat next to the router: a sender's roster row that save_chat
\* wrote lets auto_save_chat_for_both_users insert the receiver's row alone
SavedChats(tokens, peers, maxHttp) ==
    \/ HttpWrite(tokens, peers, maxHttp)
    \/ \E c \in Chans : AutoSaveInsertReceiver(c)

HttpRead(tokens, peers, maxHttp) ==
    \/ \E token \in tokens : GetSavedChats(token, maxHttp)
    \/ \E token \in tokens, other \in peers : GetMessages(token, other, maxHttp)

\* The router under every payload of Payloads, every interleaving of the
\* handlers of MaxChans channels, while the clock moves.
Next ==
    \/ Tick
    \/ Router(ValidTokens, Payloads, MaxChans, MaxPayloads)

Spec == Init /\ [][Next]_vars

\* payloads to a recipient with and without a row in users
RosterPayloads == [json : {TRUE}, to : {"B", Ghost}, message : {"x"}, from : {Absent}]

\* The router next to save_chat.
NextRoster ==
    \/ Router(ValidTokens, RosterPayloads, MaxChans, MaxPayloads)
    \/ SavedChats(ValidTokens, {"B", Ghost}, MaxHttp)

SpecRoster == Init /\ [][NextRoster]_vars

\* Admission and the HTTP operations under every token of Tokens, while
\* the clock moves past the expiry of the short-lived tokens.
NextAuth ==
    \/ Tick
    \/ \E c \in Chans, token \in Tokens : WsOpen(c, token)
    \/ \E c \in Chans : BroadcastStep(c)
    \/ HttpWrite(Tokens, {"B"}, MaxHttp)
    \/ HttpRead(Tokens, {"B"}, MaxHttp)

SpecAuth == Init /\ [][NextAuth]_vars

\* payloads that carry a sender field of the client's own
SpoofPayloads ==
    [json : {TRUE}, to : Users, message : {"x"}, from : {Absent} \cup Users]

\* The router under payloads with a sender field.
NextSender == Router(ValidTokens, SpoofPayloads, MaxSenderChans, MaxPayloads)

SpecSender == Init /\ [][NextSender]_vars

\* The tables that the INSERT of lines 538-542 can have built from sends
\* between the identities, in any interleaving of the handlers: up to
\* MaxRows rows in rowid order, each with a sender that a channel is bound
\* to and any recipient, the timestamps (CURRENT_TIMESTAMP of the INSERT,
\* taken under the write lock) in the order of the rowids.
MessageTables ==
    UNION {
        {[i \in 1..n |-> [id |-> i,
                          sender_username |-> f[i].s,
                          receiver_username |-> f[i].r,
                          message |-> "x",
                          timestamp |-> f[i].t]] :
            f \in {g \in [1..n -> [s : Users, r : Users \cup {Ghost}, t : 0..MaxClock]] :
                      \A i \in 1..(n - 1) : g[i].t <= g[i + 1].t}}
        : n \in 0..MaxRows}

\* get_messages applied to every such table, for every caller and peer.
InitHistory ==
    /\ messages \in MessageTables
    /\ clock = MaxClock
    /\ InitRest

NextHistory ==
    \E token \in ValidTokens, other \in Users \cup {Ghost} :
        GetMessages(token, other, MaxHttp)

SpecHistory == InitHistory /\ [][NextHistory]_vars

\* how many rows of a long table share one reading of the clock
RowsPerTick == {1, 2}

\* a table of n messages that A and B have sent each other in turn, first
\* sending first, per of them at each reading of the clock
LongTable(n, first, per) ==
    [i \in 1..n |->
        LET odd == i % 2 = 1
            sender == IF odd THEN first ELSE CHOOSE u \in Users : u # first
        IN  [id |-> i,
             sender_username |-> sender,
             receiver_username |-> CHOOSE u \in Users : u # sender,
             message |-> "x",
             timestamp |-> (i - 1) \div per]]

\* get_messages applied to the tables of exchanges of up to MaxExtra
\* messages more than the cap of line 502.
InitCap ==
    /\ \E n \in 0..(HistoryCap + MaxExtra), first \in Users, per \in RowsPerTick :
           /\ messages = LongTable(n, first, per)
           /\ clock = IF n = 0 THEN 0 ELSE (n - 1) \div per
    /\ InitRest

NextCap == \E token \in ValidTokens, other \in Users : GetMessages(token, other, MaxHttp)

SpecCap == InitCap /\ [][NextCap]_vars

\* The tables saved_chats can hold: up to MaxRoster rows, one per
\* (user_username, chat_username) (line 102), last_message and
\* last_message_time both NULL (lines 448-451, 605-624) or both written
\* (lines 464-476), created_at a reading of the clock (line 97).
RosterRows(times) ==
    [u : Users, p : Users \cup {Ghost}, t : {NullTime} \cup times, c : times]

OnePerPair(f) ==
    \A i, j \in DOMAIN f : (f[i].u = f[j].u /\ f[i].p = f[j].p) => i = j

RosterTable(f) ==
    [i \in DOMAIN f |-> [id |-> i,
                         user_username |-> f[i].u,
                         chat_username |-> f[i].p,
                         chat_nickname |-> "old",
                         last_message_time |-> f[i].t,
                         last_message |-> IF f[i].t = NullTime THEN Null ELSE "x",
                         created_at |-> f[i].c]]

\* get_saved_chats applied to every such table, for every caller.
InitList ==
    /\ \E n \in 0..MaxRoster : \E f \in [1..n -> RosterRows(0..MaxClock)] :
           /\ OnePerPair(f)
           /\ saved_chats = RosterTable(f)
    /\ messages = <<>>
    /\ clock = MaxClock
    /\ InitLocal

NextList == \E token \in ValidTokens : GetSavedChats(token, MaxHttp)

SpecList == InitList /\ [][NextList]_vars

\* save_chat applied to every such table whose times are the first reading
\* of the clock (save_chat reads no time), with one message stored, for
\* every caller and peer.
InitUpsert ==
    /\ \E n \in 0..MaxRoster : \E f \in [1..n -> RosterRows({0})] :
           /\ OnePerPair(f)
           /\ saved_chats = RosterTable(f)
    /\ messages = LongTable(1, "A", 1)
    /\ clock = MaxClock
    /\ InitLocal

NextUpsert == HttpWrite(ValidTokens, Users \cup {Ghost}, MaxHttp)

SpecUpsert == InitUpsert /\ [][NextUpsert]_vars

\* The router without storage faults and under fair scheduling: the event
\* loop runs every coroutine that is ready, so each step of a handler that
\* stays enabled is eventually taken; what the clients do (open, send,
\* close) is under no fairness.
HandlerStep(c) ==
    \/ BroadcastStep(c)
    \/ InsertMessage(c)
    \/ AutoSaveSelect(c)
    \/ AutoSaveInsert(c)
    \/ AutoSaveSelectReceiver(c)
    \/ UpdateLast(c)
    \/ DeliverMessage(c)
    \/ Confirm(c)
    \/ DeliverOffline(c)

NextLive ==
    \/ Tick
    \/ \E c \in 1..MaxSenderChans, token \in ValidTokens : WsOpen(c, token)
    \/ \E c \in Chans : ClientClose(c)
    \/ \E c \in Chans, payload \in RosterPayloads : Receive(c, payload, MaxPayloads)
    \/ \E c \in Chans : HandlerStep(c)

SpecLive ==
    /\ Init
    /\ [][NextLive]_vars
    /\ \A c \in Chans : WF_vars(HandlerStep(c))

\* login_form, lines 232-251, for a user whose password verifies: the
\* token of create_jwt({"sub": username}) is set as cookie access_token.
LoginForm(user, maxHttp) ==
    /\ nhttp < maxHttp
    /\ nhttp' = nhttp + 1
    /\ LET token == create_jwt(user, NoDelta, clock)
       IN  resp' = Response("login_form", token, 303, user, "",
                            <<Cookie(token, clock)>>)
    /\ UNCHANGED <<clock, dbVars, sc, chanVars>>

\* the cookie of the last sign-in, while the browser keeps it
HasCookie == resp.op = "login_form" /\ clock < resp.body[1].expires

\* the instants around the expiry of the token and of the cookie
Instants ==
    IF resp.op # "login_form" THEN {1}
    ELSE {resp.token.exp - 1, resp.token.exp, resp.body[1].expires - 1,
          resp.body[1].expires}

\* time passes up to one of these instants
Advance ==
    /\ \E t \in Instants : t > clock /\ clock' = t
    /\ UNCHANGED <<dbVars, httpVars, chanVars>>

\* Sign-in, and channels opened with the token of the cookie as time
\* passes.
NextToken ==
    \/ Advance
    \/ \E user \in Users : LoginForm(user, MaxHttp)
    \/ \E c \in Chans : HasCookie /\ WsOpen(c, resp.body[1].value)
    \/ \E c \in Chans : BroadcastStep(c)

SpecToken == Init /\ [][NextToken]_vars

\* ------------------------------------------------ vocabulary of the claims
Pids == DOMAIN log

\* the handler of payload p is done with it: back at receive_text, or ended
Handled(p) == log[p].done \/ pc[log[p].chan] \in {"crashed", "left", "closed"}

\* the handler of some channel is in the middle of processing a payload
Processing(c) ==
    pc[c] \in {"insert", "auto_save", "auto_save_insert", "auto_save_receiver",
               "auto_save_receiver_insert", "update_last", "deliver", "confirm"}

NoCrash == \A c \in Chans : pc[c] # "crashed"

\* to and message are present and non-empty
ValidPayload(p) ==
    /\ log[p].to \notin {Absent, ""}
    /\ log[p].message \notin {Absent, Null, ""}

MessageFrame(p) == Frame("message", log[p].sender, log[p].message, p)
SentFrame(p) == Frame("sent", log[p].to, log[p].message, p)
OfflineFrame(p) == Frame("error", log[p].to, "", p)

\* how many times frame went to a channel bound to identity user
CopiesTo(user, frame) ==
    LET f[k \in 0..MaxChans] ==
            IF k = 0 THEN 0
            ELSE f[k - 1] + (IF username[k] = user THEN CopiesIn(frame, inbox[k])
                             ELSE 0)
    IN  f[MaxChans]

\* how many frames about payload p are in the bag
FramesIn(p, bag) ==
    BagCardinality([f \in {g \in BagToSet(bag) : g.pid = p} |-> bag[f]])

\* how many frames about payload p went to any channel
FramesAbout(p) ==
    LET f[k \in 0..MaxChans] ==
            IF k = 0 THEN 0 ELSE f[k - 1] + FramesIn(p, inbox[k])
    IN  f[MaxChans]

\* the rows of messages written for payload p
RowsOf(p) == {i \in DOMAIN messages : messages[i].id = log[p].msgid}

\* ------------------------------------------------------------- the claims

\* C1 (as the specification states it, for runs in which no handler has
\* failed): when the router has handled a valid payload whose recipient was
\* in the registry at line 561, exactly one "message" frame with the
\* payload's body and from = S has gone to a channel of the recipient,
\* exactly one "sent" frame to a channel of S, and no other frame about the
\* payload to anyone.
C1_MessageAndSentExactlyOnce ==
    NoCrash =>
    \A p \in Pids :
        (log[p].done /\ log[p].branch = "online" /\ ValidPayload(p)) =>
            /\ CopiesTo(log[p].to, MessageFrame(p)) = 1
            /\ CopiesTo(log[p].sender, SentFrame(p)) = 1
            /\ FramesAbout(p) = 2

\* the recipient of payload p was not in the registry when the router was
\* done with p: line 561 found it absent, or the handler never got that far
\* and the recipient is an identity that no channel is ever bound to
UnregisteredRecipient(p) ==
    \/ log[p].branch = "offline"
    \/ log[p].branch = "" /\ log[p].to \notin Users

\* message row id is in the history that get_messages gives user about other
InHistory(id, user, other) ==
    \E i \in DOMAIN get_messages(user, other, messages) :
        get_messages(user, other, messages)[i].id = id

\* C2: when the router has handled a valid payload from S whose recipient
\* was not in the registry (and the message store did not fail), exactly one
\* offline notice has gone to S, no other frame about the payload to
\* anyone, the message is in the message store, and a history fetch between
\* S and the recipient returns it.
C2_OfflineNoticeAndHistory ==
    \A p \in Pids :
        (/\ Handled(p)
         /\ ValidPayload(p)
         /\ ~log[p].insert_failed
         /\ UnregisteredRecipient(p)) =>
            /\ CopiesTo(log[p].sender, OfflineFrame(p)) = 1
            /\ FramesAbout(p) = 1
            /\ RowsOf(p) # {}
            /\ InHistory(log[p].msgid, log[p].sender, log[p].to)

\* no handler is in the middle of processing a payload
Quiescent == \A c \in Chans : ~Processing(c)

\* listFor(user) contains chat
Listed(user, chat) ==
    \E i \in DOMAIN get_saved_chats(user, saved_chats) :
        get_saved_chats(user, saved_chats)[i].chat_username = chat

\* C3: in every state in which no handler is in the middle of processing a
\* payload, for every row of messages the roster of the sender lists the
\* receiver and the roster of the receiver lists the sender.
C3_RosterEntriesForEveryMessage ==
    Quiescent =>
        \A i \in DOMAIN messages :
            /\ Listed(messages[i].sender_username, messages[i].receiver_username)
            /\ Listed(messages[i].receiver_username, messages[i].sender_username)

\* the last message of the history between a and b is strictly later than
\* every other message of it
LatestIsUnique(a, b) ==
    LET h == get_messages(a, b, messages)
    IN  /\ h # <<>>
        /\ \A i \in 1..(Len(h) - 1) : h[i].timestamp < h[Len(h)].timestamp

\* C4: once the handlers have finished processing (none has failed), for
\* two identities whose history has a latest message, the last_message of
\* the roster rows (a, b) and (b, a) is the body of that message.
C4_LastMessageIsMostRecent ==
    (Quiescent /\ NoCrash) =>
        \A a \in Users, b \in Users :
            LatestIsUnique(a, b) =>
                \A i \in DOMAIN saved_chats :
                    (/\ saved_chats[i].user_username = a
                     /\ saved_chats[i].chat_username = b) =>
                        saved_chats[i].last_message =
                            get_messages(a, b, messages)[Len(get_messages(a, b, messages))].message

\* the exceptions that the content of a payload raises in the handler:
\* json.loads on text that is not JSON, message_data[...] on a missing
\* key, receiver_info["nickname"] on a recipient without a row in users
PayloadFaults == {"JSONDecodeError", "KeyError", "TypeError"}

\* C5: no channel is terminated by the content of a payload it received:
\* no handler has ended, while processing a payload, with an exception
\* that the payload's content raised.
C5_NoPayloadEndsChannel ==
    \A p \in Pids :
        ~(/\ cur[log[p].chan] = p
          /\ pc[log[p].chan] = "crashed"
          /\ ended[log[p].chan] \in PayloadFaults)

\* some frame of the given type about payload p is in an inbox
SomeFrame(p, type) ==
    \E c \in Chans : \E f \in BagToSet(inbox[c]) : f.pid = p /\ f.type = type

\* C6: a payload whose to or message is absent or empty appends no row to
\* messages, changes no roster row and causes no "message" or "sent"
\* frame.
C6_InvalidPayloadRejected ==
    \A p \in Pids :
        (log[p].to \in {Absent, ""} \/ log[p].message \in {Absent, ""}) =>
            /\ log[p].msgid = 0
            /\ ~log[p].roster
            /\ ~SomeFrame(p, "message")
            /\ ~SomeFrame(p, "sent")

\* a frame about payload p, other than the offline notice and the frames
\* of a delivery, has gone to a channel of the sender
FailureReported(p) ==
    \E c \in Chans :
        /\ username[c] = log[p].sender
        /\ \E f \in BagToSet(inbox[c]) :
               f.pid = p /\ f.type \notin {"message", "sent", "error"}

\* C7: when the INSERT into messages has failed for a payload, no roster
\* row is written and no "message" or "sent" frame is sent for it, the
\* sender is sent a failure frame that is not the offline notice, and the
\* channel is not terminated.
C7_StoreFailureReported ==
    \A p \in Pids :
        log[p].insert_failed =>
            /\ ~log[p].roster
            /\ ~SomeFrame(p, "message")
            /\ ~SomeFrame(p, "sent")
            /\ FailureReported(p)
            /\ ~(cur[log[p].chan] = p /\ pc[log[p].chan] = "crashed")

\* the token does not authenticate at clock reading now: it is missing,
\* its signature does not verify, or it has expired
TokenInvalid(token, now) == ~token.present \/ ~token.sig \/ token.exp <= now

\* the token of the HTTP request that a step has started
RequestToken == IF sc'.active /\ ~sc.active THEN sc'.token ELSE resp'.token

\* C8: a channel opened with a token that does not authenticate is closed
\* with code 1008 in the same step, nothing is accepted, the registry, the
\* inboxes (so no presence notice) and the two stores are as before, and
\* the channel stays refused and outside the registry from then on; an HTTP
\* operation started with such a token answers 401, starts no write and
\* leaves the two stores as they are.
C8_Step ==
    /\ \A c \in Chans :
           (pc[c] = "init" /\ pc'[c] # "init" /\ TokenInvalid(tokenOf'[c], clock)) =>
               /\ pc'[c] = "refused"
               /\ ended'[c] = "close(1008)"
               /\ ~wsOpen'[c]
               /\ active_connections' = active_connections
               /\ inbox' = inbox
               /\ messages' = messages
               /\ saved_chats' = saved_chats
    /\ \A c \in Chans :
           pc[c] = "refused" =>
               /\ pc'[c] = "refused"
               /\ inbox'[c] = EmptyBag
               /\ \A i \in DOMAIN active_connections' : active_connections'[i].ws # c
    /\ (nhttp' # nhttp /\ TokenInvalid(RequestToken, clock)) =>
           /\ resp'.status = 401
           /\ sc' = sc
           /\ messages' = messages
           /\ saved_chats' = saved_chats

C8_UnauthenticatedChangesNothing == [][C8_Step]_vars

\* C8 witness: with an identity registered, a channel opened with an
\* expired token of good signature has been refused, and save_chat called
\* with an expired token of good signature has answered 401.
C8_Witness ==
    /\ RegLen(active_connections) > 0
    /\ \E c \in Chans :
           /\ pc[c] = "refused"
           /\ tokenOf[c].present /\ tokenOf[c].sig /\ tokenOf[c].exp <= clock
    /\ resp.op = "save_chat"
    /\ resp.status = 401
    /\ resp.token.present /\ resp.token.sig /\ resp.token.exp <= clock

\* the payload being processed on channel c carries a sender field that
\* names another identity than the one bound to c
Spoofing(c) ==
    /\ cur[c] # 0
    /\ message_data[c].from \notin {Absent, username[c]}

\* C9: every row of messages written for a payload has as sender_username,
\* and every "message" frame sent for a payload has as from, the identity
\* that the token bound to the channel the payload arrived on.
C9_SenderIsBoundIdentity ==
    \A p \in Pids :
        /\ log[p].sender = tokenOf[log[p].chan].sub
        /\ \A i \in RowsOf(p) : messages[i].sender_username = log[p].sender
        /\ \A c \in Chans : \A f \in BagToSet(inbox[c]) :
               (f.pid = p /\ f.type = "message") => f.peer = log[p].sender

\* C9 witness: a payload that names another sender has been persisted and
\* its "message" frame has been sent.
C9_Witness ==
    \E c \in Chans :
        /\ Spoofing(c)
        /\ pc[c] = "confirm"
        /\ RowsOf(cur[c]) # {}
        /\ SomeFrame(cur[c], "message")

\* the timestamps of the rows of seq never go down
NonDecreasing(seq) ==
    \A i \in 1..(Len(seq) - 1) : seq[i].timestamp <= seq[i + 1].timestamp

\* C10: whatever table the sends between two identities have built, the
\* sequence that get_messages returns for them has non-decreasing
\* timestamps, and so has the body of every answer of the history
\* operation.
C10_HistoryNonDecreasing ==
    /\ \A a \in Users, b \in Users : NonDecreasing(get_messages(a, b, messages))
    /\ (resp.op = "get_messages" /\ resp.status = 200) => NonDecreasing(resp.body)

\* C10 witness: A and B have each sent the other a message, at different
\* clock readings, and the history operation has returned both.
C10_Witness ==
    /\ resp.op = "get_messages"
    /\ resp.status = 200
    /\ \E i, j \in DOMAIN resp.body :
           /\ resp.body[i].sender_username = "A" /\ resp.body[i].receiver_username = "B"
           /\ resp.body[j].sender_username = "B" /\ resp.body[j].receiver_username = "A"
           /\ resp.body[i].timestamp # resp.body[j].timestamp

\* the messages between a and b that a history fetch can return (both
\* parties have a row in users), in rowid order
Exchanged(a, b) ==
    LET Pair(m) == /\ \/ m.sender_username = a /\ m.receiver_username = b
                      \/ m.sender_username = b /\ m.receiver_username = a
                   /\ UserInfo(m.sender_username).found
                   /\ UserInfo(m.receiver_username).found
    IN  SelectSeq(messages, Pair)

\* h is cap-many (or all) of the rows of all, and no row left out is more
\* recent than a row of h
MostRecentOf(h, all, cap) ==
    /\ Len(h) = IF Len(all) <= cap THEN Len(all) ELSE cap
    /\ \A i \in DOMAIN h : \E j \in DOMAIN all : all[j] = h[i]
    /\ \A i, j \in DOMAIN h : i # j => h[i].id # h[j].id
    /\ \A j \in DOMAIN all :
           (\A i \in DOMAIN h : h[i].id # all[j].id) =>
               \A i \in DOMAIN h : all[j].timestamp <= h[i].timestamp

\* C11: the history of A and B is, in ascending order of timestamp, all
\* their messages when they are at most HistoryCap, and otherwise
\* HistoryCap of them than which no other message of theirs is more recent.
C11_HistoryIsMostRecent ==
    \A a \in Users, b \in Users :
        /\ NonDecreasing(get_messages(a, b, messages))
        /\ MostRecentOf(get_messages(a, b, messages), Exchanged(a, b), HistoryCap)

\* the step is a step of the broadcast that the handler of channel c runs
BroadcastStepOf(c) ==
    /\ pc[c] \in {"connect", "left"}
    /\ pc'[c] # pc[c] \/ bc'[c] # bc[c]

\* the identities that were registered when the broadcast of channel c
\* began, other than the one it excludes
SnapshotOf(c) ==
    IF bc[c].pos = 0 THEN Registered(active_connections, {username[c]})
    ELSE bc[c].snapshot

\* C12: no step of the broadcast that connect runs for a channel puts a
\* frame in the inbox of a channel of the connecting identity; and when
\* that broadcast ends, every other identity that was registered when it
\* began has been sent the notice.
C12_Step ==
    \A c \in Chans :
        (pc[c] = "connect" /\ BroadcastStepOf(c)) =>
            /\ \A d \in Chans : username[d] = username[c] => inbox'[d] = inbox[d]
            /\ pc'[c] # "connect" => SnapshotOf(c) \subseteq bc[c].sent

C12_PresenceNotice == [][C12_Step]_vars

\* the faults of a dict iterator whose dict was changed under it
IterationFaults ==
    {"RuntimeError: dictionary changed size during iteration",
     "RuntimeError: dictionary keys changed during iteration"}

\* C13: no step of a broadcast ends it with a fault of the enumeration of
\* the registry, whatever connects and disconnects have run since it began;
\* and when a broadcast ends, every identity that was registered when it
\* began, is not excluded and is still registered on an open channel has
\* been sent the payload.
C13_Step ==
    \A c \in Chans :
        BroadcastStepOf(c) =>
            /\ ended'[c] \notin IterationFaults
            /\ pc'[c] # pc[c] =>
                   \A u \in SnapshotOf(c) :
                       (/\ RegHas(active_connections', u)
                        /\ wsOpen'[RegGet(active_connections', u)]) =>
                           u \in bc[c].sent

C13_BroadcastSnapshot == [][C13_Step]_vars

\* C14: whenever the handler of a channel has ended, for whatever reason
\* (client close, fault while processing a payload, failed send), the
\* registry maps no identity to that channel.
HandlerEnded(c) == pc[c] \in {"crashed", "closed"}

C14_EndedChannelDeregistered ==
    \A c \in Chans :
        HandlerEnded(c) =>
            \A i \in DOMAIN active_connections :
                active_connections[i].user # Dummy => active_connections[i].ws # c

\* C15: the roster holds at most one row per (owner, peer), and no
\* interleaving of explicit upserts and router roster syncs makes one of
\* them fail on the uniqueness of the pair.
OneRowPerPair ==
    \A i, j \in DOMAIN saved_chats :
        (/\ saved_chats[i].user_username = saved_chats[j].user_username
         /\ saved_chats[i].chat_username = saved_chats[j].chat_username) => i = j

C15_RosterUniqueAndNoFailure ==
    /\ OneRowPerPair
    /\ \A c \in Chans : ended[c] # "IntegrityError"
    /\ ~(resp.op = "save_chat" /\ resp.status = 500)

\* C16: a save_chat write leaves last_message and last_message_time of
\* every existing row as they were, leaves every row of another pair and
\* the whole table messages unchanged, adds at most the row of its own pair,
\* and running the same save_chat again on the result changes nothing.
Upserting == sc.active /\ ~sc'.active

C16_Step ==
    Upserting =>
        /\ messages' = messages
        /\ Len(saved_chats') \in {Len(saved_chats), Len(saved_chats) + 1}
        /\ \A i \in DOMAIN saved_chats :
               /\ saved_chats'[i].last_message = saved_chats[i].last_message
               /\ saved_chats'[i].last_message_time = saved_chats[i].last_message_time
               /\ ~(/\ saved_chats[i].user_username = sc.user
                    /\ saved_chats[i].chat_username = sc.chat) =>
                      saved_chats'[i] = saved_chats[i]
        /\ \A i \in DOMAIN saved_chats' \ DOMAIN saved_chats :
               /\ saved_chats'[i].user_username = sc.user
               /\ saved_chats'[i].chat_username = sc.chat
        /\ resp'.status = 200 =>
               save_chat(saved_chats', sc.user, sc.chat, sc.nickname, clock')
                   = saved_chats'

C16_UpsertKeepsLastMessage == [][C16_Step]_vars

\* an UPDATE of save_chat has been answered 200 for a row that carries a
\* last message, in a table with a row of another pair
C16_Witness ==
    /\ resp.op = "save_chat" /\ resp.status = 200
    /\ \E i, j \in DOMAIN saved_chats :
           /\ i # j
           /\ saved_chats[i].user_username = resp.user
           /\ saved_chats[i].chat_username = resp.peer
           /\ saved_chats[i].chat_nickname \in Nicknames
           /\ saved_chats[i].last_message # Null
           /\ saved_chats[i].created_at < clock

\* C17: get_saved_chats answers exactly the caller's rows of saved_chats,
\* rows with a last message before rows without one, later
\* last_message_time first, and among rows of equal last_message_time (or
\* none) later created_at first; a caller without rows gets the empty list.
Listing == resp.op = "get_saved_chats" /\ resp.status = 200

RowsOfOwner(user) ==
    {saved_chats[i] : i \in {j \in DOMAIN saved_chats :
                                saved_chats[j].user_username = user}}

InListOrder(r1, r2) ==
    /\ r1.last_message_time = NullTime => r2.last_message_time = NullTime
    /\ r2.last_message_time # NullTime => r1.last_message_time >= r2.last_message_time
    /\ r1.last_message_time = r2.last_message_time => r1.created_at >= r2.created_at

C17_ListOrdered ==
    Listing =>
        /\ {resp.body[i] : i \in DOMAIN resp.body} = RowsOfOwner(resp.user)
        /\ Len(resp.body) = Cardinality(RowsOfOwner(resp.user))
        /\ \A i, j \in DOMAIN resp.body :
               i < j => InListOrder(resp.body[i], resp.body[j])

\* a list of two rows has been answered whose order the last message time
\* decides against the creation time
C17_Witness ==
    /\ Listing
    /\ Len(resp.body) >= 2
    /\ resp.body[1].last_message_time # NullTime
    /\ resp.body[1].created_at < resp.body[2].created_at

\* C18: a handler emits the "message", the "sent" or the offline frame of a
\* payload only after the payload's row has been appended to table messages
\* and after its roster update, and that update leaves the payload's body
\* as last_message of the roster rows of (sender, to) and of (to, sender).
Emitting(c) ==
    /\ pc[c] \in {"deliver", "confirm"}
    /\ pc'[c] # pc[c]
    /\ inbox' # inbox

Persisted(c) ==
    \E i \in DOMAIN messages :
        /\ messages[i].id = log[cur[c]].msgid
        /\ messages[i].sender_username = username[c]
        /\ messages[i].receiver_username = message_data[c].to
        /\ messages[i].message = message_data[c].message

RosterCarries(chats, user, chat, body) ==
    \E i \in DOMAIN chats :
        /\ chats[i].user_username = user
        /\ chats[i].chat_username = chat
        /\ chats[i].last_message = body

RosterUpdating(c) == pc[c] = "update_last" /\ pc'[c] = "deliver"

C18_Step ==
    \A c \in Chans :
        /\ Emitting(c) => Persisted(c) /\ log[cur[c]].roster
        /\ RosterUpdating(c) =>
               /\ Persisted(c)
               /\ log'[cur[c]].roster
               /\ RosterCarries(saved_chats', username[c], message_data[c].to,
                                message_data[c].message)
               /\ RosterCarries(saved_chats', message_data[c].to, username[c],
                                message_data[c].message)
        /\ (cur[c] # 0 /\ ~RosterUpdating(c)) =>
               log'[cur[c]].roster = log[cur[c]].roster

C18_PersistedRosterDelivered == [][C18_Step]_vars

\* the "message" and the "sent" frame of a payload have been emitted, and
\* so has the offline frame of another
C18_Witness ==
    \E p, q \in Pids :
        /\ log[p].done /\ log[p].branch = "online"
        /\ FramesIn(p, inbox[log[p].chan]) > 0
        /\ log[q].done /\ log[q].branch = "offline"
        /\ FramesAbout(q) > 0

\* C19: under fair scheduling and without storage faults, every payload
\* received on an admitted channel is eventually delivered (its row is in
\* messages, its roster update is done, its "sent" or offline frame has gone
\* to the sender) or, being malformed, dropped.
Delivered(p) ==
    /\ p \in Pids
    /\ RowsOf(p) # {}
    /\ log[p].roster
    /\ CopiesTo(log[p].sender, SentFrame(p))
           + CopiesTo(log[p].sender, OfflineFrame(p)) > 0

Rejected(p) == p \in Pids /\ ~ValidPayload(p) /\ Handled(p)

C19_EveryPayloadTerminates ==
    \A p \in 1..MaxPayloads : (p \in Pids) ~> (Delivered(p) \/ Rejected(p))

\* C20: after the roster update of a payload, last_message_time of the
\* roster rows of (sender, to) and of (to, sender) is the timestamp of the
\* payload's row in messages.
RosterTimeIs(chats, user, chat, t) ==
    \A i \in DOMAIN chats :
        (chats[i].user_username = user /\ chats[i].chat_username = chat) =>
            chats[i].last_message_time = t

C20_Step ==
    \A c \in Chans :
        RosterUpdating(c) =>
            \A i \in DOMAIN messages :
                messages[i].id = log[cur[c]].msgid =>
                    /\ RosterTimeIs(saved_chats', username[c], message_data[c].to,
                                    messages[i].timestamp)
                    /\ RosterTimeIs(saved_chats', message_data[c].to, username[c],
                                    messages[i].timestamp)

C20_RosterTimeIsMessageTime == [][C20_Step]_vars

\* the websocket that the next step of handler c sends to, 0 if it sends
\* to none
SendTarget(c) ==
    CASE pc[c] = "deliver" ->
             IF RegHas(active_connections, message_data[c].to)
             THEN RegGet(active_connections, message_data[c].to)
             ELSE RegGet(active_connections, username[c])
      [] pc[c] = "confirm" -> RegGet(active_connections, username[c])
      [] pc[c] \in {"connect", "left"} ->
             BroadcastAdvance(active_connections,
                              IF bc[c].pos = 0 THEN 1 ELSE bc[c].pos,
                              IF bc[c].pos = 0 THEN RegLen(active_connections)
                              ELSE bc[c].used,
                              IF bc[c].pos = 0 THEN RegLen(active_connections)
                              ELSE bc[c].left,
                              {username[c]}).ws
      [] OTHER -> 0

\* handler c takes the step in which its send_text fails
FailingSend(c) ==
    /\ SendTarget(c) # 0
    /\ ~wsOpen[SendTarget(c)]
    /\ pc'[c] # pc[c]

\* C21: when a send to the registered channel of an identity fails, that
\* channel is no longer registered afterwards, and the handler whose
\* payload or connect caused the send goes on.
C21_Step ==
    \A c \in Chans :
        FailingSend(c) =>
            /\ \A i \in DOMAIN active_connections' :
                   active_connections'[i].user # Dummy =>
                       active_connections'[i].ws # SendTarget(c)
            /\ pc'[c] \notin {"crashed", "left"}

C21_FailedSendDeregisters == [][C21_Step]_vars

\* C22: when the handler of a channel that is no longer the registered
\* channel of its identity takes the client's close, the identity stays
\* registered with the channel that superseded it.
Superseded(c) ==
    /\ pc[c] = "receive"
    /\ RegHas(active_connections, username[c])
    /\ RegGet(active_connections, username[c]) # c

Closing(c) == pc[c] = "receive" /\ pc'[c] = "left"

C22_Step ==
    \A c \in Chans :
        (Superseded(c) /\ Closing(c)) =>
            /\ RegHas(active_connections', username[c])
            /\ RegGet(active_connections', username[c])
                   = RegGet(active_connections, username[c])

C22_SupersededCloseKeepsBinding == [][C22_Step]_vars

\* C23: in the list that get_messages answers, of two messages with the
\* same timestamp the one with the smaller id comes first.
TiesInIdOrder(seq) ==
    \A i, j \in DOMAIN seq :
        (i < j /\ seq[i].timestamp = seq[j].timestamp) => seq[i].id < seq[j].id

Opening(c) == pc[c] = "init" /\ pc'[c] # "init"

C24_Step ==
    /\ (nhttp' # nhttp /\ resp'.op = "login_form") =>
           /\ resp'.token.sub = resp'.user
           /\ resp'.token.exp = clock + DefaultTtl
           /\ resp'.body[1].expires = clock + CookieMaxAge
    /\ \A c \in Chans :
           Opening(c) =>
               /\ clock < tokenOf'[c].exp =>
                      pc'[c] = "connect" /\ username'[c] = tokenOf'[c].sub
               /\ clock >= tokenOf'[c].exp => pc'[c] = "refused"
               /\ (HasCookie /\ tokenOf'[c] = resp.body[1].value) =>
                      pc'[c] = "connect"

C24_TokenLifetime == [][C24_Step]_vars

====
